---- MODULE Spec2Model ----
(***************************************************************************)
(* Headloop primer design (Headloop_package.py, function design).          *)
(*                                                                         *)
(* design(sense_oligo, antisense_oligo, guide_context, orientation) is     *)
(* modelled as a step machine: orientation check, size check, the two      *)
(* primer Tm evaluations, the three iterations of the frame loop, the two  *)
(* sorts and the orientation-dependent assembly.                           *)
(*                                                                         *)
(* melting.temp is an external library.  It is modelled as an unknown      *)
(* deterministic function: each call returns some value of TmValues, and   *)
(* tmMemo records the values returned so far, so that a second call on the *)
(* same sequence returns the same value.  melting.temp returns a float: a   *)
(* temperature is held in hundredths of a degree (62.99 is 6299).          *)
(*                                                                         *)
(* Sequences of nucleotides are TLA+ sequences of one-letter strings.      *)
(* Python indices are 0-based; TLA+ sequences are 1-based, so Python's     *)
(* s[a:b] is the elements a+1 .. b of the TLA+ sequence.                   *)
(***************************************************************************)
EXTENDS Integers, Sequences, FiniteSets, TLC

VARIABLES
    sense_oligo,      \* argument: the sense primer
    antisense_oligo,  \* argument: the antisense primer
    guide_context,    \* argument: guide sequence plus context
    orientation,      \* argument: a string
    pc,               \* position inside design
    i, j,             \* local: index into MT for rc tags (i) and offset tags (j)
    MT,               \* local: Tm of (sense, antisense)
    frame,            \* local: loop counter
    master_rc,        \* local: list of reverse-complement candidates
    master_offset,    \* local: list of offset candidates
    ret,              \* the value design returned (NotReturned while running)
    stdout,           \* what this invocation printed
    tmMemo,           \* graph of melting.temp on the sequences seen so far
    tmCalls,          \* arguments of this invocation's calls of melting.temp, in order
    invocations,      \* number of invocations of design so far
    prev              \* the previous invocation: [args, ret]

vars == <<sense_oligo, antisense_oligo, guide_context, orientation, pc, i, j, MT,
          frame, master_rc, master_offset, ret, stdout, tmMemo, tmCalls,
          invocations, prev>>

(***************************************************************************)
(* Program constants.                                                      *)
(***************************************************************************)
MinContextLen == 35
TagLen == 20
OffsetStart == 12
OffsetEnd == 32
\* Variant: the loop runs while frame <= 3.
FourFrames == 3 + 1
NumFrames == 3
TmTolerance == 3

orient_error == "Orientation not correctly specified.\n"
size_error == "Guide and context is not big enough for design"
PassText == "Tm difference < 3°C"
SenseWarning ==
    "WARNING: Could not optimise sense headloop tag (Tm difference > 3°C)"
AntisenseWarning ==
    "WARNING: Could not optimise antisense headloop tag (Tm difference > 3°C)"
SenseId == "Sense HL"
AntisenseId == "Antisense HL"

\* Python's None, a call that has not returned yet, an unbound local.  The
\* value design returns is a tuple: the empty tuple stands for None.
None == <<>>
NotReturned == <<"NotReturned">>
Unbound == "unbound"

(***************************************************************************)
(* Bounds of the model and the inputs drawn at Init.                       *)
(***************************************************************************)
MaxCtxLen == 38
MaxInvocations == 2

\* Values melting.temp may return, in hundredths of a degree: 57.00, 60.00,
\* 62.99 and 63.00.  Their differences are 0, 0.01, 2.99, 3.00, 5.99 and 6.00.
TmValues == {5700, 6000, 6299, 6300}

\* The context of the docstring's example (line 47), continued by two bases so
\* that its prefixes reach beyond MaxCtxLen.
DocContext ==
    <<"C","T","A","C","A","G","G","A","C","G","T","A","C","C","T","G","C","A","C",
      "C","C","G","G","A","T","T","C","A","C","C","A","G","C","G","C","C","C","G",
      "A","T">>
\* The primers of the docstring's example (line 46).
DocSense ==
    <<"C","T","G","G","T","C","C","A","G","T","G","C","G","T","T","A","T","T","G",
      "G">>
DocAntisense ==
    <<"A","G","C","C","A","A","A","T","G","C","T","T","C","T","T","G","C","T","C",
      "T","T","T","T">>
\* tbx16_AA_guide of headloop_example.py (line 20): 35 bases.
ExampleContext ==
    <<"A","C","C","A","T","C","A","T","G","T","G","C","T","G","G","A","C","G","T",
      "C","C","G","G","A","T","T","G","A","T","G","G","A","G","C","G">>
\* tbx16_AA_F and tbx16_AA_R of headloop_example.py (line 14, 17).
ExampleF ==
    <<"A","G","G","T","T","A","T","T","T","G","C","T","G","T","C","A","T","G","G",
      "C","T","T","T","G">>
ExampleR ==
    <<"A","C","T","T","T","C","A","C","A","T","C","A","T","T","C","C","A","C","T",
      "G","G">>
PolyA == [k \in 1..MinContextLen |-> "A"]

PrimerF == <<"A","G","G","T","T">>
PrimerR == <<"A","C","T">>

Orientations == {"sense", "antisense", "sideways", "Sense"}

\* The arguments of an invocation: <<sense, antisense, context, orientation>>.
\* The docstring's example, the example script's call in both orientations,
\* and short primers with contexts of every length around the minimum.
CtxLens == {0, 20, 32, 33, 34, 35, MaxCtxLen}
Inputs ==
    {<<DocSense, DocAntisense, SubSeq(DocContext, 1, MaxCtxLen), "antisense">>}
    \cup {<<ExampleF, ExampleR, ExampleContext, o>> : o \in {"sense", "antisense"}}
    \cup {<<PrimerR, PrimerR, SubSeq(DocContext, 1, n), o>> :
             n \in CtxLens, o \in Orientations}
    \cup {<<PrimerF, PrimerR, c, o>> :
             c \in {PolyA, SubSeq(DocContext, 1, 34)}, o \in Orientations}

SwapInputs ==
    {<<ExampleF, ExampleR, ExampleContext, "sense">>,
     <<PrimerF, PrimerR, SubSeq(DocContext, 1, 20), "antisense">>,
     <<PrimerF, PrimerR, PolyA, "sideways">>}

(***************************************************************************)
(* Pure helpers.                                                           *)
(***************************************************************************)
Min(a, b) == IF a <= b THEN a ELSE b

abs(x) == IF x < 0 THEN -x ELSE x

\* Python's s[a:b] for 0 <= a, 0 <= b: both ends are clamped to len(s).
Slice(s, a, b) == SubSeq(s, Min(a, Len(s)) + 1, Min(b, Len(s)))

Complement(c) ==
    CASE c = "A" -> "T"
      [] c = "T" -> "A"
      [] c = "C" -> "G"
      [] c = "G" -> "C"

\* Variant: complement() in place of reverse_complement().
ComplementOnly(s) == [k \in 1..Len(s) |-> Complement(s[k])]

\* Bio.Seq.reverse_complement on the alphabet {A, C, G, T}.
ReverseComplement(s) == [k \in 1..Len(s) |-> Complement(s[Len(s) + 1 - k])]

\* Variant: rc tags are always scored against the sense primer.
RcIndexFixed(o) == 0

\* line 72-77: the index of the primer an rc tag is scored against.
RcIndex(o) == IF o = "sense" THEN 0 ELSE 1

\* Variant: offset tags are always scored against the antisense primer.
OffsetIndexFixed(o) == 1

\* line 72-77: the index of the primer an offset tag is scored against.
OffsetIndex(o) == IF o = "sense" THEN 1 ELSE 0

\* line 72-78
ValidOrientation(o) == o = "sense" \/ o = "antisense"

\* Variant: the check len(context) + 1 < 35.
TooShortPlusOne(context) == Len(context) + 1 < MinContextLen

\* line 92
TooShort(context) == Len(context) < MinContextLen

\* line 113: temp_rc = context[frame:(frame + 20)]
RcWindow(context, f) == Slice(context, f, f + TagLen)

\* Variant: the offset window ends one base early.
OffsetWindowShort(context, f) ==
    Slice(context, f + OffsetStart, f + OffsetEnd - 1)

\* line 125: offset = context[(frame + 12):(frame + 32)]
OffsetWindow(context, f) == Slice(context, f + OffsetStart, f + OffsetEnd)

\* line 116, 127: abs(MT[k] - tm), MT indexed from 0
TmDiff(mt, k, tm) == abs(mt[k + 1] - tm)

\* n degrees in the unit of the temperatures, a hundredth of a degree.
Degrees(n) == n * 100

\* Variant: the comparison diff <= 3.
FlagInclusive(diff) == IF diff <= Degrees(TmTolerance) THEN 0 ELSE 1

\* line 117-120, 128-131: 0 when the difference is below 3, else 1
Flag(diff) == IF diff < Degrees(TmTolerance) THEN 0 ELSE 1

\* line 121, 132: the tuple (sequence, tm, difference, frame, flag)
Candidate(s, tm, diff, f) ==
    [seq |-> s, tm |-> tm, diff |-> diff, frame |-> f, flag |-> Flag(diff)]

\* line 137: key = lambda x: (x[2], x[3])
RcKey(x) == <<x.diff, x.frame>>

\* Variant: the offset tags sorted with the key of the rc tags.
OffsetKeyAscending(x) == <<x.diff, x.frame>>

\* line 138: key = lambda x: (x[2], -x[3])
OffsetKey(x) == <<x.diff, -x.frame>>

\* Python's order on 2-tuples of numbers.
KeyLess(a, b) == a[1] < b[1] \/ (a[1] = b[1] /\ a[2] < b[2])

\* list.sort(key = Key) decorates every element with its key and sorts
\* stably: an element goes after every element whose key is not greater.
RECURSIVE InsertByKey(_, _)
InsertByKey(x, s) ==
    IF s = <<>> THEN <<x>>
    ELSE IF KeyLess(x[1], Head(s)[1]) THEN <<x>> \o s
    ELSE <<Head(s)>> \o InsertByKey(x, Tail(s))

RECURSIVE SortPairs(_)
SortPairs(s) ==
    IF s = <<>> THEN <<>>
    ELSE InsertByKey(s[Len(s)], SortPairs(SubSeq(s, 1, Len(s) - 1)))

\* The elements of a sorted list of <<key, element>> pairs.
Undecorate(sorted) == [k \in 1..Len(sorted) |-> sorted[k][2]]

\* line 137: master_rc.sort(key = lambda x: (x[2], x[3]))
SortRc(s) == Undecorate(SortPairs([k \in 1..Len(s) |-> <<RcKey(s[k]), s[k]>>]))

\* line 138: master_offset.sort(key = lambda x: (x[2], -x[3]))
SortOffset(s) ==
    Undecorate(SortPairs([k \in 1..Len(s) |-> <<OffsetKey(s[k]), s[k]>>]))

\* Variant: primer + tag.
TaggedAppend(tag, primer) == primer \o tag

\* line 142-143, 160-161: tag + primer
Tagged(tag, primer) == tag \o primer

\* line 146-156, 164-174: SeqRecord(seq, id) with its description
SeqRecord(s, id, flag, warning) ==
    [seq |-> s, id |-> id,
     description |-> IF flag = 1 THEN warning ELSE PassText]

\* melting.temp(s) may return v: any value, unless s was evaluated before.
TmReturns(memo, s, v) ==
    /\ v \in TmValues
    /\ s \in DOMAIN memo => v = memo[s]

Remember(memo, s, v) == IF s \in DOMAIN memo THEN memo ELSE (s :> v) @@ memo

(***************************************************************************)
(* Initial states: design is entered with its arguments; the locals have   *)
(* the values lines 97 and 104-108 give them.                              *)
(***************************************************************************)
Entered(inputs) ==
    /\ \E a \in inputs :
         /\ sense_oligo = a[1] /\ antisense_oligo = a[2]
         /\ guide_context = a[3]
         /\ orientation = a[4]
    /\ pc = "orientation"
    /\ i = Unbound /\ j = Unbound
    /\ MT = <<>>
    /\ frame = 0
    /\ master_rc = <<>> /\ master_offset = <<>>
    /\ ret = NotReturned
    /\ stdout = <<>>
    /\ tmMemo = <<>>
    /\ tmCalls = <<>>
    /\ invocations = 1
    /\ prev = None

Init == Entered(Inputs)

InitSwap == Entered(SwapInputs)

(***************************************************************************)
(* The steps of design.                                                    *)
(***************************************************************************)
\* line 70-80
CheckOrientation ==
    /\ pc = "orientation"
    /\ IF ValidOrientation(orientation)
       THEN /\ i' = RcIndex(orientation)
            /\ j' = OffsetIndex(orientation)
            /\ pc' = "size"
            /\ UNCHANGED <<ret, stdout>>
       ELSE /\ stdout' = Append(stdout, orient_error)
            /\ ret' = None
            /\ pc' = "done"
            /\ UNCHANGED <<i, j>>
    /\ UNCHANGED <<sense_oligo, antisense_oligo, guide_context, orientation, MT,
                   frame, master_rc, master_offset, tmMemo, tmCalls,
                   invocations, prev>>

\* line 82-94
CheckSize ==
    /\ pc = "size"
    /\ IF TooShort(guide_context)
       THEN /\ stdout' = Append(stdout, size_error)
            /\ ret' = None
            /\ pc' = "done"
       ELSE /\ pc' = "primers"
            /\ UNCHANGED <<ret, stdout>>
    /\ UNCHANGED <<sense_oligo, antisense_oligo, guide_context, orientation, i, j,
                   MT, frame, master_rc, master_offset, tmMemo, tmCalls,
                   invocations, prev>>

\* line 87: primers = (sense, antisense)
primers == <<sense_oligo, antisense_oligo>>

\* line 99-101: one iteration of the loop over primers
PrimerTm ==
    /\ pc = "primers"
    /\ \E temptm \in TmValues :
        LET primer == primers[Len(MT) + 1] IN
        /\ TmReturns(tmMemo, primer, temptm)
        /\ tmMemo' = Remember(tmMemo, primer, temptm)
        /\ tmCalls' = Append(tmCalls, primer)
        /\ MT' = Append(MT, temptm)
        /\ pc' = IF Len(MT') = Len(primers) THEN "frames" ELSE "primers"
    /\ UNCHANGED <<sense_oligo, antisense_oligo, guide_context, orientation, i, j,
                   frame, master_rc, master_offset, ret, stdout, invocations, prev>>

\* line 110-134: one iteration of the while loop
FrameStep ==
    /\ pc = "frames"
    /\ frame < NumFrames
    /\ \E rc_temp_tm \in TmValues, off_temp_tm \in TmValues :
        LET rc == ReverseComplement(RcWindow(guide_context, frame))
            offset == OffsetWindow(guide_context, frame)
            memo1 == Remember(tmMemo, rc, rc_temp_tm)
        IN
        /\ TmReturns(tmMemo, rc, rc_temp_tm)
        /\ TmReturns(memo1, offset, off_temp_tm)
        /\ tmMemo' = Remember(memo1, offset, off_temp_tm)
        /\ tmCalls' = tmCalls \o <<rc, offset>>
        /\ master_rc' =
             Append(master_rc,
                    Candidate(rc, rc_temp_tm, TmDiff(MT, i, rc_temp_tm), frame))
        /\ master_offset' =
             Append(master_offset,
                    Candidate(offset, off_temp_tm, TmDiff(MT, j, off_temp_tm), frame))
    /\ frame' = frame + 1
    /\ pc' = IF frame' < NumFrames THEN "frames" ELSE "sort"
    /\ UNCHANGED <<sense_oligo, antisense_oligo, guide_context, orientation, i, j,
                   MT, ret, stdout, invocations, prev>>

\* line 137-138
SortTags ==
    /\ pc = "sort"
    /\ master_rc' = SortRc(master_rc)
    /\ master_offset' = SortOffset(master_offset)
    /\ pc' = "assemble"
    /\ UNCHANGED <<sense_oligo, antisense_oligo, guide_context, orientation, i, j,
                   MT, frame, ret, stdout, tmMemo, tmCalls, invocations, prev>>

\* line 141-176
Assemble ==
    /\ pc = "assemble"
    /\ IF orientation = "sense"
       THEN LET temp_sense_hl == Tagged(master_rc[1].seq, sense_oligo)
                temp_antisense_hl == Tagged(master_offset[1].seq, antisense_oligo)
            IN ret' =
                 <<SeqRecord(temp_sense_hl, SenseId, master_rc[1].flag,
                             SenseWarning),
                   SeqRecord(temp_antisense_hl, AntisenseId,
                             master_offset[1].flag, AntisenseWarning)>>
       ELSE LET temp_antisense_hl == Tagged(master_rc[1].seq, antisense_oligo)
                temp_sense_hl == Tagged(master_offset[1].seq, sense_oligo)
            IN ret' =
                 <<SeqRecord(temp_sense_hl, SenseId, master_offset[1].flag,
                             SenseWarning),
                   SeqRecord(temp_antisense_hl, AntisenseId, master_rc[1].flag,
                             AntisenseWarning)>>
    /\ pc' = "done"
    /\ UNCHANGED <<sense_oligo, antisense_oligo, guide_context, orientation, i, j,
                   MT, frame, master_rc, master_offset, stdout, tmMemo, tmCalls,
                   invocations, prev>>

Next ==
    \/ CheckOrientation
    \/ CheckSize
    \/ PrimerTm
    \/ FrameStep
    \/ SortTags
    \/ Assemble

Spec == Init /\ [][Next]_vars

(***************************************************************************)
(* A caller that invokes design again with the two primers exchanged and   *)
(* the other orientation.  melting.temp is the same function in every      *)
(* invocation, so tmMemo is kept.                                          *)
(***************************************************************************)
OtherOrientation(o) ==
    IF o = "sense" THEN "antisense" ELSE IF o = "antisense" THEN "sense" ELSE o

Reinvoke ==
    /\ pc = "done"
    /\ invocations < MaxInvocations
    /\ invocations' = invocations + 1
    /\ prev' = [sense |-> sense_oligo, antisense |-> antisense_oligo,
                context |-> guide_context, orientation |-> orientation,
                ret |-> ret]
    /\ sense_oligo' = antisense_oligo
    /\ antisense_oligo' = sense_oligo
    /\ orientation' = OtherOrientation(orientation)
    /\ pc' = "orientation"
    /\ i' = Unbound /\ j' = Unbound
    /\ MT' = <<>>
    /\ frame' = 0
    /\ master_rc' = <<>> /\ master_offset' = <<>>
    /\ ret' = NotReturned
    /\ stdout' = <<>>
    /\ tmCalls' = <<>>
    /\ UNCHANGED <<guide_context, tmMemo>>

NextSwap == Next \/ Reinvoke

SpecSwap == InitSwap /\ [][NextSwap]_vars

(***************************************************************************)
(* Properties.                                                             *)
(***************************************************************************)
Range(s) == {s[k] : k \in 1..Len(s)}

\* design returned a pair of records.
IsPair(r) == r # None /\ r # NotReturned

Succeeded == pc = "done" /\ IsPair(ret)

\* The two sorts are done.
Selected == pc = "assemble" \/ Succeeded

OrientationOk == orientation \in {"sense", "antisense"}

\* An error value handed back to the caller.
ErrorValues == {<<orient_error>>, <<size_error>>}

\* c is the candidate the selection rule of the rc set picks.
RcBest(c) ==
    /\ c \in Range(master_rc)
    /\ \A d \in Range(master_rc) :
         c.diff < d.diff \/ (c.diff = d.diff /\ c.frame <= d.frame)

\* c is the candidate the selection rule of the offset set picks.
OffsetBest(c) ==
    /\ c \in Range(master_offset)
    /\ \A d \in Range(master_offset) :
         c.diff < d.diff \/ (c.diff = d.diff /\ c.frame >= d.frame)

RcWinner == CHOOSE c \in Range(master_rc) : RcBest(c)
OffsetWinner == CHOOSE c \in Range(master_offset) : OffsetBest(c)

\* The candidate whose tag goes onto the sense (antisense) primer.
SenseTagWinner == IF orientation = "sense" THEN RcWinner ELSE OffsetWinner
AntisenseTagWinner == IF orientation = "sense" THEN OffsetWinner ELSE RcWinner

\* The primer the rc (offset) winner is concatenated onto.
RcPrimer == IF orientation = "sense" THEN sense_oligo ELSE antisense_oligo
OffsetPrimer == IF orientation = "sense" THEN antisense_oligo ELSE sense_oligo

Passes(r) == r.description = PassText

\* C1: with a valid orientation and a context of at least 35 bases, design
\* returns one sense-tagged and one antisense-tagged primer, each exactly 20
\* bases longer than its input primer; no selected window is truncated.
C1_TaggedLengths ==
    (pc = "done" /\ OrientationOk /\ Len(guide_context) >= MinContextLen) =>
        /\ IsPair(ret)
        /\ Len(ret) = 2
        /\ ret[1].id = SenseId
        /\ ret[2].id = AntisenseId
        /\ Len(ret[1].seq) = Len(sense_oligo) + 20
        /\ Len(ret[2].seq) = Len(antisense_oligo) + 20

C1_Witness ==
    /\ pc = "done" /\ OrientationOk
    /\ Len(guide_context) = MinContextLen
    /\ IsPair(ret)
    /\ Len(ret[1].seq) = Len(sense_oligo) + 20
    /\ Len(ret[2].seq) = Len(antisense_oligo) + 20
    /\ Len(sense_oligo) # Len(antisense_oligo)

\* C2: with an orientation that is neither "sense" nor "antisense",
\* whatever the context length, design hands the error InvalidOrientation
\* back to its caller as an error value, it is the first failure reported
\* and no tagged primer is produced.  (Lines 78-80 print the message and
\* return None, the value also returned for a short context.)
C2_ErrorReturned ==
    (pc = "done" /\ ~OrientationOk) =>
        /\ ret \in ErrorValues
        /\ stdout = <<orient_error>>
        /\ tmCalls = <<>>
        /\ ~IsPair(ret)

\* C3: with a valid orientation, design fails with the size message and no
\* result pair exactly when the context is shorter than 35; a context of 35
\* or more bases yields a result pair.
C3_ContextTooShort ==
    (pc = "done" /\ OrientationOk) =>
        /\ Len(guide_context) < 35 => (ret = None /\ stdout = <<size_error>>)
        /\ Len(guide_context) >= 35 => (IsPair(ret) /\ stdout = <<>>)

C3_Witness ==
    /\ pc = "done" /\ OrientationOk
    /\ Len(guide_context) = 34
    /\ ret = None
    /\ stdout = <<size_error>>

\* C4: in each set of three candidates the selected one (the head of the
\* sorted list) has the minimum Tm difference; among rc candidates tied on
\* the minimum the lowest frame is selected, among offset candidates tied on
\* the minimum the highest frame.
C4_Selection ==
    Selected =>
        /\ {c.frame : c \in Range(master_rc)} = 0..2
        /\ {c.frame : c \in Range(master_offset)} = 0..2
        /\ \A d \in Range(master_rc) :
             /\ master_rc[1].diff <= d.diff
             /\ d.diff = master_rc[1].diff => master_rc[1].frame <= d.frame
        /\ \A d \in Range(master_offset) :
             /\ master_offset[1].diff <= d.diff
             /\ d.diff = master_offset[1].diff =>
                    master_offset[1].frame >= d.frame

\* Both sets have a tie on the minimum between different sequences, the rc
\* set between different temperatures (one above, one below the primer's).
C4_Witness ==
    /\ Succeeded
    /\ master_rc[1].frame = 0
    /\ master_offset[1].frame = 2
    /\ \E d \in Range(master_rc) :
         /\ d.frame # 0 /\ d.diff = master_rc[1].diff
         /\ d.seq # master_rc[1].seq
         /\ d.tm # master_rc[1].tm
    /\ \E d \in Range(master_offset) :
         /\ d.frame # 2 /\ d.diff = master_offset[1].diff
         /\ d.seq # master_offset[1].seq
    /\ \E d \in Range(master_offset) : d.diff > master_offset[1].diff

\* C5: on success the outputs are tag first, primer second, by orientation:
\* sense puts the rc winner on the sense primer and the offset winner on the
\* antisense primer, antisense the reverse; the pair is (sense-tagged
\* "Sense HL", antisense-tagged "Antisense HL") and each input primer is an
\* unchanged suffix of its tagged primer.
C5_Assembly ==
    Succeeded =>
        /\ ret[1].id = SenseId
        /\ ret[2].id = AntisenseId
        /\ ret[1].seq = SenseTagWinner.seq \o sense_oligo
        /\ ret[2].seq = AntisenseTagWinner.seq \o antisense_oligo
        /\ orientation = "sense" => SenseTagWinner = RcWinner
        /\ orientation = "antisense" => SenseTagWinner = OffsetWinner
        /\ SubSeq(ret[1].seq, Len(ret[1].seq) - Len(sense_oligo) + 1,
                  Len(ret[1].seq)) = sense_oligo
        /\ SubSeq(ret[2].seq, Len(ret[2].seq) - Len(antisense_oligo) + 1,
                  Len(ret[2].seq)) = antisense_oligo

C5_Witness ==
    /\ Succeeded
    /\ orientation = "antisense"
    /\ sense_oligo # antisense_oligo
    /\ ret[2].seq = RcWinner.seq \o antisense_oligo
    /\ ret[1].seq = OffsetWinner.seq \o sense_oligo
    /\ RcWinner.frame = 1
    /\ OffsetWinner.frame = 1

\* C6: each tagged primer's annotation follows the flag of the tag that was
\* concatenated onto it: the pass text iff that tag's Tm difference is below
\* 3, else (3 included) the warning, which names "sense" on the
\* sense-tagged primer and "antisense" on the antisense-tagged primer.
C6_Annotation ==
    Succeeded =>
        /\ SubSeq(ret[1].seq, 1, Len(SenseTagWinner.seq)) = SenseTagWinner.seq
        /\ SubSeq(ret[2].seq, 1, Len(AntisenseTagWinner.seq))
               = AntisenseTagWinner.seq
        /\ ret[1].description =
               IF SenseTagWinner.diff < Degrees(3) THEN PassText ELSE SenseWarning
        /\ ret[2].description =
               IF AntisenseTagWinner.diff < Degrees(3) THEN PassText
               ELSE AntisenseWarning

\* The outcome the docstring documents for its example: the sense primer
\* carries the offset tag of frame 0 and is warned (here exactly 3.00 off,
\* the other two offset tags further off), the antisense primer carries the
\* rc tag of frame 0 and passes (here 2.99 off).
C6_Witness ==
    /\ Succeeded
    /\ orientation = "antisense"
    /\ sense_oligo = DocSense /\ antisense_oligo = DocAntisense
    /\ ret[1].seq = SubSeq(guide_context, 13, 32) \o sense_oligo
    /\ SenseTagWinner.frame = 0
    /\ SenseTagWinner.diff = Degrees(3)
    /\ \A d \in Range(master_offset) : d.frame # 0 => d.diff > Degrees(3)
    /\ ret[1].description = SenseWarning
    /\ AntisenseTagWinner.frame = 0
    /\ AntisenseTagWinner.diff = Degrees(3) - 1
    /\ ret[2].description = PassText

\* C7: design(p, q, c, "sense") and design(q, p, c, "antisense") give the
\* same two tagged sequences with the roles exchanged, each with the same
\* pass/warning status, for a context of at least 35 bases.
C7_SwapSymmetry ==
    (pc = "done" /\ invocations >= 2 /\ OrientationOk
        /\ Len(guide_context) >= MinContextLen) =>
        /\ IsPair(prev.ret) /\ IsPair(ret)
        /\ prev.sense = antisense_oligo /\ prev.antisense = sense_oligo
        /\ prev.orientation # orientation
        /\ prev.ret[1].seq = ret[2].seq
        /\ prev.ret[2].seq = ret[1].seq
        /\ Passes(prev.ret[1]) <=> Passes(ret[2])
        /\ Passes(prev.ret[2]) <=> Passes(ret[1])

C7_Witness ==
    /\ pc = "done" /\ invocations = 2
    /\ orientation = "antisense"
    /\ IsPair(ret) /\ IsPair(prev.ret)
    /\ prev.ret[1].seq = ret[2].seq
    /\ Passes(ret[2]) /\ ~Passes(ret[1])
    /\ MT[1] # MT[2]

\* C8: the differences of the rc candidates are taken against the Tm of the
\* primer the rc winner is concatenated onto (sense primer for "sense",
\* antisense primer for "antisense"), those of the offset candidates against
\* the Tm of the other primer, onto which the offset winner is concatenated.
C8_ScoringTarget ==
    /\ \A c \in Range(master_rc) :
         c.diff = abs(tmMemo[RcPrimer] - tmMemo[c.seq])
    /\ \A c \in Range(master_offset) :
         c.diff = abs(tmMemo[OffsetPrimer] - tmMemo[c.seq])
    /\ Succeeded =>
         /\ RcWinner.seq \o RcPrimer \in {ret[1].seq, ret[2].seq}
         /\ OffsetWinner.seq \o OffsetPrimer \in {ret[1].seq, ret[2].seq}
         /\ orientation = "sense" => ret[1].seq = RcWinner.seq \o sense_oligo
         /\ orientation = "antisense" =>
                ret[2].seq = RcWinner.seq \o antisense_oligo

C8_Witness ==
    /\ Succeeded
    /\ orientation = "antisense"
    /\ tmMemo[sense_oligo] # tmMemo[antisense_oligo]
    /\ RcWinner.diff = abs(tmMemo[antisense_oligo] - RcWinner.tm)
    /\ RcWinner.diff # abs(tmMemo[sense_oligo] - RcWinner.tm)
    /\ OffsetWinner.diff # abs(tmMemo[antisense_oligo] - OffsetWinner.tm)

\* The rc candidate of frame f: the reverse complement of context[f : f+20].
RcOf(f) == [m \in 1..20 |-> Complement(guide_context[f + 20 + 1 - m])]

\* The offset candidate of frame f: context[f+12 : f+32].
OffsetOf(f) == [m \in 1..20 |-> guide_context[f + 12 + m]]

\* C9: the rc candidate of frame f is the reverse complement of
\* context[f : f+20], the offset candidate is context[f+12 : f+32]; three of
\* each kind are generated, in ascending frame order, and the largest index
\* read, 33, is inside the context.
C9_Windows ==
    /\ pc \in {"frames", "sort"} =>
         /\ Len(master_rc) = frame /\ Len(master_offset) = frame
         /\ \A k \in 1..frame :
              master_rc[k].frame = k - 1 /\ master_offset[k].frame = k - 1
    /\ (pc = "sort" \/ Selected) =>
         Len(master_rc) = 3 /\ Len(master_offset) = 3
    /\ \A c \in Range(master_rc) :
         c.frame \in 0..2 /\ c.seq = RcOf(c.frame)
    /\ \A c \in Range(master_offset) :
         /\ c.frame \in 0..2
         /\ c.frame + 32 <= Len(guide_context)
         /\ c.seq = OffsetOf(c.frame)
    /\ master_rc # <<>> => 33 < Len(guide_context)

C9_Witness ==
    /\ pc = "sort"
    /\ Len(guide_context) = 35
    /\ Len(master_rc) = 3 /\ Len(master_offset) = 3
    /\ master_rc[1].seq = ReverseComplement(SubSeq(guide_context, 1, 20))
    /\ master_rc[3].seq = ReverseComplement(SubSeq(guide_context, 3, 22))
    /\ master_offset[1].seq = SubSeq(guide_context, 13, 32)
    /\ master_offset[3].seq = SubSeq(guide_context, 15, 34)
    /\ master_rc[1].seq # master_rc[3].seq

\* C10: a successful invocation makes exactly 8 calls of the Tm function,
\* the 2 for the primers first and then the 6 for the candidates; an
\* invocation that fails validation makes none, and no call is made before
\* validation has passed.
C10_TmCalls ==
    /\ Len(tmCalls) <= 8
    /\ tmCalls # <<>> =>
         /\ OrientationOk
         /\ Len(guide_context) >= MinContextLen
         /\ stdout = <<>>
         /\ tmCalls[1] = sense_oligo
         /\ Len(tmCalls) >= 2 => tmCalls[2] = antisense_oligo
         /\ \A k \in 3..Len(tmCalls) :
              tmCalls[k] \in {c.seq : c \in Range(master_rc)}
                               \cup {c.seq : c \in Range(master_offset)}
    /\ Succeeded =>
         /\ Len(tmCalls) = 8
         /\ {tmCalls[k] : k \in 3..8} =
              {c.seq : c \in Range(master_rc)}
                  \cup {c.seq : c \in Range(master_offset)}
    /\ (pc = "done" /\ ret = None) => tmCalls = <<>>

C10_Witness ==
    /\ Succeeded
    /\ Len(tmCalls) = 8
    /\ tmCalls[1] = sense_oligo /\ tmCalls[2] = antisense_oligo
    /\ Cardinality({tmCalls[k] : k \in 1..8}) = 8

====
